---- MODULE Spec2Model ----
(***************************************************************************)
(* The chat backend: the two Express variants of the repository            *)
(* (src/index.js and src/unnamed/part_000) over the Chat and UserChats     *)
(* collections.  A request handler runs atomically between two awaits on   *)
(* the store; concurrent requests interleave at those awaits.              *)
(***************************************************************************)
EXTENDS Integers, Sequences, FiniteSets, TLC

\* ------------------------------------------------------------- bounds
MaxReqs == 2
MaxChats == 2
ShortLen == 2

\* ------------------------------------------------------------- constants
\* text.substring(0, 40)
TitleLen == 40

Variants == {"index", "part_000"}
Users == {"u1", "u2"}

\* A string is a sequence of characters.
Str(n, c) == [i \in 1..n |-> c]
EmptyStr == <<>>
ShortText == Str(ShortLen, "s")
LongText == [i \in 1..(TitleLen + 1) |-> IF i <= TitleLen THEN "l" ELSE "m"]
Question == <<"q">>
Answer == <<"a">>
Img == <<"i">>

\* A JSON body is a record holding the fields that are present.
NoBody == [f \in {} |-> EmptyStr]
With(f, vals) == {[g \in {f} |-> v] : v \in vals}
Merge(a, b) == [g \in DOMAIN a \cup DOMAIN b |-> IF g \in DOMAIN a THEN a[g] ELSE b[g]]
Opt(f, vals) == {NoBody} \cup With(f, vals)

PostBodies == Opt("text", {EmptyStr, ShortText, LongText})
PutBodies ==
    {Merge(q, Merge(a, i)) :
        q \in Opt("question", {EmptyStr, Question}),
        a \in Opt("answer", {Answer}),
        i \in Opt("img", {Img})}

ChatIds == 1..MaxChats

VARIABLES variant, chats, userChats, reqs

vars == <<variant, chats, userChats, reqs>>

\* ------------------------------------------------------------- helpers
\* JavaScript truthiness of a body field: undefined and "" are falsy.
Truthy(body, f) == f \in DOMAIN body /\ body[f] # EmptyStr

Min(a, b) == IF a <= b THEN a ELSE b

\* text.substring(0, 40)
Substring(text, n) == SubSeq(text, 1, Min(n, Len(text)))

\* The title without the substring call.
TitleWhole(text) == text

Title(text) == Substring(text, TitleLen)

\* { text: v } where an undefined v leaves the field out.
Part(body, f) == IF f \in DOMAIN body THEN [text |-> body[f]] ELSE NoBody

\* new Chat({ userId, history: [{ role: "user", parts: [{ text }] }] })
NewChat(id, userId, text) ==
    [_id |-> id, userId |-> userId,
     history |-> <<[role |-> "user", parts |-> <<[text |-> text]>>]>>]

\* The user entry without the img spread.
UserItemNoImg(body) ==
    [role |-> "user", parts |-> <<Part(body, "question")>>]

\* const newItems = [...(question ? [user entry, ...(img && { img })] : []), model entry]
UserItem(body) ==
    IF Truthy(body, "img")
    THEN [role |-> "user", parts |-> <<Part(body, "question")>>, img |-> body.img]
    ELSE [role |-> "user", parts |-> <<Part(body, "question")>>]

ModelItem(body) == [role |-> "model", parts |-> <<Part(body, "answer")>>]

NewItems(body) ==
    (IF Truthy(body, "question") THEN <<UserItem(body)>> ELSE <<>>)
        \o <<ModelItem(body)>>

\* A lookup by id alone: findOne({ _id: id }).
FindChatById(id, userId) ==
    IF id \in DOMAIN chats THEN <<chats[id]>> ELSE <<>>

\* Chat.findOne({ _id: id, userId }): the matching documents (none or one).
FindChat(id, userId) ==
    IF id \in DOMAIN chats /\ chats[id].userId = userId THEN <<chats[id]>> ELSE <<>>

\* An update filter by id alone: updateOne({ _id: id }, ...).
UpdateOneMatchById(id, userId) ==
    IF id \in DOMAIN chats THEN id ELSE 0

\* Chat.updateOne({ _id: id, userId }, ...): the position of the document the
\* filter matches, 0 for none.
UpdateOneMatch(id, userId) ==
    IF id \in DOMAIN chats /\ chats[id].userId = userId THEN id ELSE 0

\* An update that sets the history instead of pushing to it.
SetHistory(id, items) ==
    [chats EXCEPT ![id].history = items]

\* { $push: { history: { $each: newItems } } } on the chat id.
PushHistory(id, items) ==
    [chats EXCEPT ![id].history = @ \o items]

\* Positions of the UserChats documents of a user, in collection order.
IndexesOf(userId) == {i \in DOMAIN userChats : userChats[i].userId = userId}

FirstIndexOf(userId) ==
    CHOOSE i \in IndexesOf(userId) : \A j \in IndexesOf(userId) : i <= j

\* A summary without `_id: savedChat._id`: the subdocument gets an id of its
\* own, which is no chat id.
SummaryOwnId(chatId, text) == [_id |-> 0, title |-> Title(text)]

Summary(chatId, text) == [_id |-> chatId, title |-> Title(text)]

\* ------------------------------------------------------------- requests
Req(route, userId, id, body) ==
    [route |-> route, userId |-> userId, id |-> id, body |-> body,
     pc |-> "done", status |-> 0, err |-> FALSE, chatId |-> 0, found |-> 0,
     chat |-> <<>>]

\* res.status(code).json(...)
Respond(r, code) == [r EXCEPT !.pc = "done", !.status = code]

\* A catch block without .status(500): Express answers 200.
ErrorResponseNoStatus(r) == [Respond(r, 200) EXCEPT !.err = TRUE]

\* catch (err) { res.status(500).json({ error }) }
ErrorResponse(r) == [Respond(r, 500) EXCEPT !.err = TRUE]

Init ==
    /\ variant \in Variants
    /\ chats = <<>>
    /\ userChats = <<>>
    /\ reqs = <<>>

\* GET /api/chats/:id
GetChat(u, id) ==
    /\ Len(reqs) < MaxReqs
    /\ \E ok \in BOOLEAN :
        LET r == Req("get", u, id, NoBody)
            chat == FindChat(id, u)
        IN  reqs' = Append(reqs,
                IF ~ok THEN ErrorResponse(r)
                ELSE IF chat = <<>> THEN Respond(r, 404)
                ELSE [Respond(r, 200) EXCEPT !.chat = chat])
    /\ UNCHANGED <<variant, chats, userChats>>

\* A check for an absent text only: if (text === undefined).
ValidPostDefined(body) == "text" \in DOMAIN body

\* if (!text) return res.status(400)
ValidPost(body) == Truthy(body, "text")

\* if (!answer) return res.status(400): part_000 only; index.js has no such check.
ValidPut(body) == variant = "index" \/ Truthy(body, "answer")

\* A collection without the uniqueness of userId.
AcceptsAnyUserChats(userId) == TRUE

\* The UserChats collection accepts a new document only for a user that has
\* none (userId is unique per user).
AcceptsUserChats(userId) == IndexesOf(userId) = {}

\* POST /api/chats up to the end of `await newChat.save()`
PostChats(u, body) ==
    /\ Len(reqs) < MaxReqs
    /\ LET r == Req("post", u, 0, body)
           id == Len(chats) + 1
       IN  IF ~ValidPost(body)
           THEN /\ reqs' = Append(reqs, Respond(r, 400))
                /\ UNCHANGED chats
           ELSE /\ Len(chats) < MaxChats
                /\ \E ok \in BOOLEAN :
                    IF ok
                    THEN /\ chats' = Append(chats, NewChat(id, u, body.text))
                         /\ reqs' = Append(reqs, [r EXCEPT !.pc = "find", !.chatId = id])
                    ELSE /\ reqs' = Append(reqs, ErrorResponse(r))
                         /\ UNCHANGED chats
    /\ UNCHANGED <<variant, userChats>>

\* await UserChats.find({ userId }) / UserChats.findOne({ userId })
PostChatsFind(i) ==
    /\ reqs[i].pc = "find"
    /\ \E ok \in BOOLEAN :
        LET r == reqs[i]
            pos == IF IndexesOf(r.userId) = {} THEN 0 ELSE FirstIndexOf(r.userId)
        IN  reqs' = [reqs EXCEPT ![i] =
                IF ok THEN [r EXCEPT !.pc = "write", !.found = pos] ELSE ErrorResponse(r)]
    /\ UNCHANGED <<variant, chats, userChats>>

\* The document the else branch writes to: index.js addresses it by userId
\* (updateOne), part_000 saves the document it read.
WriteTarget(r) ==
    IF variant = "index"
    THEN (IF IndexesOf(r.userId) = {} THEN 0 ELSE FirstIndexOf(r.userId))
    ELSE r.found

\* the if/else on the index read, the index write, and res.status(201)
PostChatsWrite(i) ==
    /\ reqs[i].pc = "write"
    /\ LET r == reqs[i]
           s == Summary(r.chatId, r.body.text)
       IN  \E ok \in BOOLEAN :
            IF ~ok
            THEN /\ reqs' = [reqs EXCEPT ![i] = ErrorResponse(r)]
                 /\ UNCHANGED userChats
            ELSE IF r.found = 0
            THEN IF AcceptsUserChats(r.userId)
                 THEN /\ userChats' = Append(userChats,
                                         [userId |-> r.userId, chats |-> <<s>>])
                      /\ reqs' = [reqs EXCEPT ![i] = Respond(r, 201)]
                 ELSE /\ reqs' = [reqs EXCEPT ![i] = ErrorResponse(r)]
                      /\ UNCHANGED userChats
            ELSE /\ userChats' =
                        IF WriteTarget(r) = 0 THEN userChats
                        ELSE [userChats EXCEPT ![WriteTarget(r)].chats = Append(@, s)]
                 /\ reqs' = [reqs EXCEPT ![i] = Respond(r, 201)]
    /\ UNCHANGED <<variant, chats>>

\* PUT /api/chats/:id up to the end of its first await: in part_000 the whole
\* handler (updateOne by id and userId), in index.js the findOne.
PutChat(u, id, body) ==
    /\ Len(reqs) < MaxReqs
    /\ LET r == Req("put", u, id, body)
           chat == FindChat(id, u)
           hit == UpdateOneMatch(id, u)
       IN  IF ~ValidPut(body)
           THEN /\ reqs' = Append(reqs, Respond(r, 400))
                /\ UNCHANGED chats
           ELSE \E ok \in BOOLEAN :
                IF ~ok
                THEN /\ reqs' = Append(reqs, ErrorResponse(r))
                     /\ UNCHANGED chats
                ELSE IF variant = "index"
                THEN /\ reqs' = Append(reqs,
                            IF chat = <<>> THEN Respond(r, 404)
                            ELSE [r EXCEPT !.pc = "update"])
                     /\ UNCHANGED chats
                ELSE IF hit = 0
                THEN /\ reqs' = Append(reqs, Respond(r, 404))
                     /\ UNCHANGED chats
                ELSE /\ chats' = PushHistory(hit, NewItems(body))
                     /\ reqs' = Append(reqs, Respond(r, 200))
    /\ UNCHANGED <<variant, userChats>>

\* index.js: await Chat.findByIdAndUpdate(id, $push, { new: true }) and res.status(200)
PutChatUpdate(i) ==
    /\ reqs[i].pc = "update"
    /\ LET r == reqs[i]
       IN  \E ok \in BOOLEAN :
            IF ~ok
            THEN /\ reqs' = [reqs EXCEPT ![i] = ErrorResponse(r)]
                 /\ UNCHANGED chats
            ELSE IF r.id \in DOMAIN chats
            THEN /\ chats' = PushHistory(r.id, NewItems(r.body))
                 /\ reqs' = [reqs EXCEPT ![i] =
                        [Respond(r, 200) EXCEPT !.chat = <<chats'[r.id]>>]]
            ELSE /\ reqs' = [reqs EXCEPT ![i] = Respond(r, 200)]
                 /\ UNCHANGED chats
    /\ UNCHANGED <<variant, userChats>>

Next ==
    \/ \E u \in Users, body \in PostBodies : PostChats(u, body)
    \/ \E i \in DOMAIN reqs : PostChatsFind(i)
    \/ \E i \in DOMAIN reqs : PostChatsWrite(i)
    \/ \E u \in Users, id \in ChatIds, body \in PutBodies : PutChat(u, id, body)
    \/ \E i \in DOMAIN reqs : PutChatUpdate(i)
    \/ \E u \in Users, id \in ChatIds : GetChat(u, id)

Spec == Init /\ [][Next]_vars

\* A store that already holds a chat: u1 created chat 1 with a successful
\* POST /api/chats; chat 2 does not exist and u2 owns nothing.
CreatedChats == {<<"u1">>}

InitChats ==
    /\ variant \in Variants
    /\ \E owners \in CreatedChats :
        /\ chats = [c \in DOMAIN owners |-> NewChat(c, owners[c], ShortText)]
        /\ userChats = [c \in DOMAIN owners |->
                [userId |-> owners[c], chats |-> <<Summary(c, ShortText)>>]]
    /\ reqs = <<>>

NextChats ==
    \/ \E u \in Users, id \in ChatIds, body \in PutBodies : PutChat(u, id, body)
    \/ \E i \in DOMAIN reqs : PutChatUpdate(i)

SpecChats == InitChats /\ [][NextChats]_vars

\* ------------------------------------------------------------- properties
\* Request i was received or advanced by the step.
Stepped(i) == i \notin DOMAIN reqs \/ reqs'[i] # reqs[i]

Owns(u, id) == id \in DOMAIN chats /\ chats[id].userId = u

IndexesIn(coll, u) == {k \in DOMAIN coll : coll[k].userId = u}

\* The summaries a collection of index records lists for a user, in order.
RECURSIVE SummariesIn(_, _)
SummariesIn(coll, u) ==
    IF coll = <<>> THEN <<>>
    ELSE (IF Head(coll).userId = u THEN Head(coll).chats ELSE <<>>)
            \o SummariesIn(Tail(coll), u)

Listed(id) ==
    \E k \in DOMAIN userChats :
        \E n \in DOMAIN userChats[k].chats : userChats[k].chats[n]._id = id

\* C1: a GET /api/chats/:id returns a chat record only when the record's id is
\* the requested id and its owner is the requesting user; a fetch of a chat
\* owned by another user returns no record and responds 404 (500 when the
\* lookup itself throws).
C1_GetIsolation ==
    \A i \in DOMAIN reqs :
        LET r == reqs[i] IN
        r.route = "get" =>
            /\ r.pc = "done"
            /\ r.status = 200 =>
                /\ Len(r.chat) = 1
                /\ r.chat[1]._id = r.id
                /\ r.chat[1].userId = r.userId
            /\ r.status # 200 => r.chat = <<>>
            /\ (r.id \in DOMAIN chats /\ chats[r.id].userId # r.userId) =>
                /\ r.chat = <<>>
                /\ r.status = (IF r.err THEN 500 ELSE 404)

\* A user fetched a chat another user had created before and got 404.
C1_Witness ==
    \E i \in DOMAIN reqs, j \in DOMAIN reqs :
        /\ i < j
        /\ reqs[i].route = "post" /\ reqs[i].chatId # 0
        /\ reqs[j].route = "get" /\ reqs[j].id = reqs[i].chatId
        /\ reqs[j].userId # reqs[i].userId
        /\ reqs[j].status = 404

\* C2: a PUT /api/chats/:id whose target is not a chat of the caller (no such
\* id, or another user's chat) ends in its first step, leaves every chat
\* unmodified and responds 404 (400 when part_000 rejects a missing answer
\* first, 500 when the store call throws), in both variants.
C2_Step ==
    \A i \in DOMAIN reqs' :
        LET r == reqs'[i] IN
        (Stepped(i) /\ r.route = "put" /\ ~Owns(r.userId, r.id)) =>
            /\ chats' = chats
            /\ r.pc = "done"
            /\ \/ r.status = 404 /\ ~r.err
               \/ r.status = 500 /\ r.err
               \/ r.status = 400 /\ variant = "part_000" /\ ~Truthy(r.body, "answer")

C2_ForeignAppend == [][C2_Step]_vars

\* A user appended to another user's existing chat and got 404, with an
\* append of the owner to the same chat in flight or done.
C2_Witness ==
    \E i \in DOMAIN reqs, j \in DOMAIN reqs :
        /\ reqs[i].route = "put" /\ reqs[j].route = "put" /\ i # j
        /\ reqs[i].id = reqs[j].id
        /\ Owns(reqs[i].userId, reqs[i].id)
        /\ ~Owns(reqs[j].userId, reqs[j].id)
        /\ reqs[j].id \in DOMAIN chats
        /\ Truthy(reqs[j].body, "answer")
        /\ reqs[j].status = 404

\* text truncated to its first 40 characters, the full text if shorter.
Truncated(text) ==
    IF Len(text) <= TitleLen THEN text ELSE [k \in 1..TitleLen |-> text[k]]

FirstEntry(text) == [role |-> "user", parts |-> <<[text |-> text]>>]

\* C3: the step that saves the chat of a create request adds one chat, owned
\* by the caller, whose history is exactly the entry {role: "user", parts:
\* [{text}]}; the step that answers 201 adds exactly one summary {new chat
\* id, text truncated to 40 characters} at the end of the caller's index, in
\* a new index record when the caller had none and in the existing record
\* otherwise, and changes no other user's index.
C3_Step ==
    \A i \in DOMAIN reqs' :
        LET r == reqs'[i]
            u == r.userId
        IN
        (Stepped(i) /\ r.route = "post") =>
            /\ (i \notin DOMAIN reqs /\ r.chatId # 0) =>
                /\ Truthy(r.body, "text")
                /\ r.chatId = Len(chats) + 1
                /\ chats' = Append(chats,
                        [_id |-> r.chatId, userId |-> u,
                         history |-> <<FirstEntry(r.body.text)>>])
            /\ r.status = 201 =>
                /\ Truthy(r.body, "text")
                /\ r.chatId \in DOMAIN chats
                /\ chats[r.chatId].userId = u
                /\ chats[r.chatId].history[1] = FirstEntry(r.body.text)
                /\ SummariesIn(userChats', u) =
                        Append(SummariesIn(userChats, u),
                               [_id |-> r.chatId, title |-> Truncated(r.body.text)])
                /\ Cardinality(IndexesIn(userChats', u)) = 1
                /\ IndexesIn(userChats, u) # {} => Len(userChats') = Len(userChats)
                /\ \A v \in Users \ {u} :
                        SummariesIn(userChats', v) = SummariesIn(userChats, v)

C3_Create == [][C3_Step]_vars

\* One user created two chats, the first with a short text when it had no
\* index record and the second with a text longer than 40 characters.
C3_Witness ==
    \E i \in DOMAIN reqs, j \in DOMAIN reqs :
        /\ i < j
        /\ reqs[i].route = "post" /\ reqs[j].route = "post"
        /\ reqs[i].userId = reqs[j].userId
        /\ reqs[i].status = 201 /\ reqs[j].status = 201
        /\ reqs[i].body.text = ShortText /\ reqs[j].body.text = LongText
        /\ reqs[i].found = 0 /\ reqs[j].found # 0
        /\ Len(SummariesIn(userChats, reqs[i].userId)) = 2

\* The entries of one append, written from the request body.
ModelEntry(body) ==
    [role |-> "model",
     parts |-> <<IF "answer" \in DOMAIN body THEN [text |-> body.answer] ELSE NoBody>>]

UserEntry(body) ==
    IF "img" \in DOMAIN body /\ body.img # EmptyStr
    THEN [role |-> "user", parts |-> <<[text |-> body.question]>>, img |-> body.img]
    ELSE [role |-> "user", parts |-> <<[text |-> body.question]>>]

\* The step answers request i with 200 and its effect on the chats is to add
\* `batch` at the end of the history of the request's chat.
AppendsBatch(i, batch) ==
    LET r == reqs'[i] IN
    /\ Owns(r.userId, r.id)
    /\ chats' = [chats EXCEPT ![r.id].history = @ \o batch]

Answered200(i) ==
    /\ Stepped(i)
    /\ reqs'[i].route = "put"
    /\ reqs'[i].status = 200

\* C4 as stated: a successful append adds one model entry when question is
\* absent and the user entry followed by the model entry when question is
\* present.
C4_StepAsStated ==
    \A i \in DOMAIN reqs' :
        Answered200(i) =>
            AppendsBatch(i,
                IF "question" \in DOMAIN reqs'[i].body
                THEN <<UserEntry(reqs'[i].body), ModelEntry(reqs'[i].body)>>
                ELSE <<ModelEntry(reqs'[i].body)>>)

C4_AsStated == [][C4_StepAsStated]_vars

\* C4, amended: a successful append adds, at the end of the history and
\* leaving the earlier entries unchanged, one model entry when question is
\* absent or the empty string, and the user entry (with img only when img is
\* present) followed by the model entry when question is a non-empty string.
C4_Step ==
    \A i \in DOMAIN reqs' :
        Answered200(i) =>
            AppendsBatch(i,
                IF "question" \in DOMAIN reqs'[i].body
                        /\ reqs'[i].body.question # EmptyStr
                THEN <<UserEntry(reqs'[i].body), ModelEntry(reqs'[i].body)>>
                ELSE <<ModelEntry(reqs'[i].body)>>)

C4_Append == [][C4_Step]_vars

\* Two appends to one chat succeeded: one with a question and an image, one
\* with an empty question; the history holds the three entries they add.
C4_Witness ==
    \E i \in DOMAIN reqs, j \in DOMAIN reqs :
        /\ reqs[i].route = "put" /\ reqs[j].route = "put"
        /\ reqs[i].status = 200 /\ reqs[j].status = 200
        /\ reqs[i].id = reqs[j].id
        /\ Truthy(reqs[i].body, "question") /\ Truthy(reqs[i].body, "img")
        /\ "question" \in DOMAIN reqs[j].body /\ reqs[j].body.question = EmptyStr
        /\ Len(chats[reqs[i].id].history) = 4

\* The number of entries an append adds.
BatchLen(body) ==
    IF "question" \in DOMAIN body /\ body.question # EmptyStr THEN 2 ELSE 1

\* The entries added by the appends to chat c that were answered 200.
RECURSIVE AddedBy(_, _)
AddedBy(log, c) ==
    IF log = <<>> THEN 0
    ELSE (IF Head(log).route = "put" /\ Head(log).status = 200 /\ Head(log).id = c
          THEN BatchLen(Head(log).body) ELSE 0)
            + AddedBy(Tail(log), c)

IsPrefix(a, b) == Len(a) <= Len(b) /\ SubSeq(b, 1, Len(a)) = a

\* C5: no step removes a chat or removes, reorders or overwrites an entry
\* (each history is a prefix of the next); a step that changes a history is
\* one successful append adding its whole batch, the entries adjacent, at the
\* end; and a history's length is 1 plus the entries added by the successful
\* appends to it.
C5_Step ==
    /\ \A c \in DOMAIN chats :
        /\ c \in DOMAIN chats'
        /\ IsPrefix(chats[c].history, chats'[c].history)
        /\ chats'[c].history # chats[c].history =>
            \E i \in DOMAIN reqs' :
                /\ Answered200(i)
                /\ reqs'[i].id = c
                /\ Len(chats'[c].history) =
                        Len(chats[c].history) + BatchLen(reqs'[i].body)
                /\ chats'[c].history[Len(chats'[c].history)] = ModelEntry(reqs'[i].body)
                /\ BatchLen(reqs'[i].body) = 2 =>
                        chats'[c].history[Len(chats[c].history) + 1]
                            = UserEntry(reqs'[i].body)
    /\ \A c \in DOMAIN chats' :
        Len(chats'[c].history) = 1 + AddedBy(reqs', c)

C5_AppendOnly == [][C5_Step]_vars

\* Two appends to one chat were in flight together in index.js and were
\* applied in the opposite order of their arrival.
C5_Witness ==
    \E i \in DOMAIN reqs, j \in DOMAIN reqs :
        /\ i < j
        /\ reqs[i].route = "put" /\ reqs[j].route = "put"
        /\ reqs[i].status = 200 /\ reqs[j].status = 200
        /\ reqs[i].id = reqs[j].id
        /\ Len(reqs[i].chat) = 1 /\ Len(reqs[j].chat) = 1
        /\ Len(reqs[j].chat[1].history) < Len(reqs[i].chat[1].history)
        /\ BatchLen(reqs[j].body) = 2
        /\ chats[reqs[i].id] = reqs[i].chat[1]

\* C6 as stated: an append whose body has no answer changes no history and is
\* answered 400, whether or not the chat exists and is the caller's (a store
\* call that throws is left aside).
C6_StepAsStated ==
    \A i \in DOMAIN reqs' :
        LET r == reqs'[i] IN
        (Stepped(i) /\ r.route = "put" /\ "answer" \notin DOMAIN r.body /\ ~r.err) =>
            /\ chats' = chats
            /\ r.pc = "done"
            /\ r.status = 400

C6_NoAnswerRejected == [][C6_StepAsStated]_vars

\* C7: a create request whose text is absent or empty is answered 400 in the
\* step that receives it, and that step writes neither a chat nor an index.
C7_Step ==
    \A i \in DOMAIN reqs' :
        LET r == reqs'[i] IN
        (Stepped(i) /\ r.route = "post"
            /\ ("text" \notin DOMAIN r.body \/ r.body.text = EmptyStr)) =>
            /\ r.pc = "done"
            /\ r.status = 400
            /\ r.chatId = 0
            /\ chats' = chats
            /\ userChats' = userChats

C7_EmptyTextRejected == [][C7_Step]_vars

\* A create without text and a create with the empty text were answered 400.
C7_Witness ==
    \E i \in DOMAIN reqs, j \in DOMAIN reqs :
        /\ reqs[i].route = "post" /\ reqs[j].route = "post"
        /\ "text" \notin DOMAIN reqs[i].body
        /\ "text" \in DOMAIN reqs[j].body /\ reqs[j].body.text = EmptyStr
        /\ reqs[i].status = 400 /\ reqs[j].status = 400
        /\ chats = <<>> /\ userChats = <<>>

C9_IndexRefersToOwnChats ==
    \A k \in DOMAIN userChats :
        \A n \in DOMAIN userChats[k].chats :
            LET id == userChats[k].chats[n]._id IN
            /\ id \in DOMAIN chats
            /\ chats[id].userId = userChats[k].userId

\* An index record lists a chat while another create request failed after
\* its chat was saved.
C9_Witness ==
    /\ \E k \in DOMAIN userChats : userChats[k].chats # <<>>
    /\ \E i \in DOMAIN reqs :
        /\ reqs[i].route = "post"
        /\ reqs[i].status = 500
        /\ reqs[i].chatId # 0

\* C10: a create request that saved its chat and then failed on the index
\* read or the index write is answered 500, its chat is still stored and no
\* index record lists it; a create request answered 201 has its chat stored
\* and listed in the index of its user.
C10_NoCompensation ==
    \A i \in DOMAIN reqs :
        LET r == reqs[i] IN
        (r.route = "post" /\ r.pc = "done") =>
            /\ r.status \in {201, 400, 500}
            /\ (r.chatId # 0 /\ r.err) =>
                /\ r.status = 500
                /\ r.chatId \in DOMAIN chats
                /\ chats[r.chatId].userId = r.userId
                /\ ~Listed(r.chatId)
            /\ r.status = 201 =>
                /\ ~r.err
                /\ r.chatId \in DOMAIN chats
                /\ \E n \in DOMAIN SummariesIn(userChats, r.userId) :
                        SummariesIn(userChats, r.userId)[n]._id = r.chatId

\* Two create requests failed after saving their chats; both chats are
\* stored and neither is listed.
C10_Witness ==
    \E i \in DOMAIN reqs, j \in DOMAIN reqs :
        /\ reqs[i].route = "post" /\ reqs[j].route = "post"
        /\ reqs[i].status = 500 /\ reqs[j].status = 500
        /\ reqs[i].chatId # 0 /\ reqs[j].chatId # 0
        /\ reqs[i].chatId # reqs[j].chatId
        /\ ~Listed(reqs[i].chatId) /\ ~Listed(reqs[j].chatId)
        /\ Len(chats) = 2

====
